---- MODULE Spec2Model ----
(***************************************************************************)
(* The Ethereum JSON-RPC facade of kakarot-rpc:                            *)
(*   - KakarotEthRpc, the EthApiServer implementation                      *)
(*     (src/src/eth_rpc/servers/eth_rpc.rs), and                           *)
(*   - PoolDataProvider, the txpool_* adapter                              *)
(*     (src/src/providers/pool_provider.rs).                               *)
(* Calls run concurrently as anonymous tasks; the facade holds no state of *)
(* its own, so the in-flight calls are a bag of call records.              *)
(***************************************************************************)
EXTENDS Naturals, Sequences, FiniteSets, Bags, TLC

VARIABLES calls,    \* bag of the facade calls in flight or just completed
          aborted,  \* the process died of a stack overflow
          pool      \* the txpool adapter call under way

vars == <<calls, aborted, pool>>

----------------------------------------------------------------------------
\* Bounds of the model.
NumTasks == 2      \* calls that may be in flight at once
MaxDepth == 3      \* nested handler frames the stack holds before it overflows
MaxListing == 2    \* length of the raw mempool listing
MaxEntries == 2    \* entries of one partition of the mempool content
MaxNonce == 10     \* largest nonce of a listed transaction

----------------------------------------------------------------------------
\* Values that cross the facade.

None == <<"None">>               \* Option::None
NotApplicable == <<"n/a">>       \* the handler has no such parameter
Latest == <<"Number", "Latest">> \* BlockId::Number(BlockNumberOrTag::Latest)
BlockIds == {Latest, <<"Number", "Earliest">>, <<"Number", "0x1">>, <<"Hash", "0xh1">>}
OptBlockIds == BlockIds \cup {None}
Payloads == {"P1", "P2"}         \* the handler's other arguments, taken together
NoParam == "()"
Moved == "moved"                 \* an argument moved into the delegated call
Values == {"V1", "V2"}           \* what a capability may answer
CapErrorKinds == {"E1"}          \* how a capability may fail

NoErr == [kind |-> "-", payload |-> "-", layer |-> "-"]
Ok(v) == [ok |-> TRUE, val |-> v, err |-> NoErr]
Err(e) == [ok |-> FALSE, val |-> "-", err |-> e]
NoResult == [ok |-> FALSE, val |-> "pending", err |-> NoErr]
NoAnswer == [ok |-> FALSE, val |-> "none", err |-> NoErr]

CapError(k) == [kind |-> k, payload |-> "-", layer |-> "EthApiError"]
MethodNotSupported(name) == [kind |-> "MethodNotSupported", payload |-> name, layer |-> "EthApiError"]
\* `.into()` / `?`: EthApiError -> jsonrpsee error object, classification kept.
IntoRpcError(e) == [e EXCEPT !.layer = "ErrorObject"]

Answers == {Ok(v) : v \in Values} \cup {Err(CapError(k)) : k \in CapErrorKinds}

NoRequest == [cap |-> "-", op |-> "-", payload |-> "-", block |-> NotApplicable]
EthProvider(op, payload, block) == [cap |-> "eth_provider", op |-> op, payload |-> payload, block |-> block]
KakarotClient(op, payload, block) == [cap |-> "kakarot_client", op |-> op, payload |-> payload, block |-> block]

\* Option::unwrap_or
unwrap_or(opt, default) == IF opt = None THEN default ELSE opt

\* What a handler does when it is entered, up to its first suspension point.
Return(result) == [kind |-> "return", request |-> NoRequest, result |-> result]
Await(request) == [kind |-> "await", request |-> request, result |-> NoResult]
Get(request) == [kind |-> "get", request |-> request, result |-> NoResult]
Recurse == [kind |-> "recurse", request |-> NoRequest, result |-> NoResult]

----------------------------------------------------------------------------
\* The handlers of `impl EthApiServer for KakarotEthRpc`, one definition each,
\* under the names of the source.  Parameters the source binds with a leading
\* underscore are dropped by the handler and are not parameters here.

block_number == Await(EthProvider("block_number", NoParam, NotApplicable))
\* `self.syncing()` on a KakarotEthRpc resolves to EthApiServer::syncing itself.
syncing == Recurse
coinbase == Return(Err(IntoRpcError(MethodNotSupported("eth_coinbase"))))
\* Variant: the account list is asked of the read capability.
accounts_delegated == Await(EthProvider("accounts", NoParam, NotApplicable))
accounts == Return(Ok("[]"))
chain_id == Await(EthProvider("chain_id", NoParam, NotApplicable))
block_by_hash(args) == Await(EthProvider("block_by_hash", args, NotApplicable))
block_by_number(args) == Await(EthProvider("block_by_number", args, NotApplicable))
block_transaction_count_by_hash(hash) == Await(EthProvider("block_transaction_count_by_hash", hash, NotApplicable))
block_transaction_count_by_number(number) == Await(EthProvider("block_transaction_count_by_number", number, NotApplicable))
block_uncles_count_by_block_hash == Return(Ok("0x0"))
block_uncles_count_by_block_number == Return(Ok("0x0"))
uncle_by_block_hash_and_index == Return(Ok("null"))
uncle_by_block_number_and_index == Return(Ok("null"))
transaction_by_hash(hash) == Await(EthProvider("transaction_by_hash", hash, NotApplicable))
transaction_by_block_hash_and_index(args) == Await(EthProvider("transaction_by_block_hash_and_index", args, NotApplicable))
transaction_by_block_number_and_index(args) == Await(EthProvider("transaction_by_block_number_and_index", args, NotApplicable))
transaction_receipt(hash) == Await(EthProvider("transaction_receipt", hash, NotApplicable))
\* Variant: the dispatcher defaults the block identifier itself.
balance_injecting_latest(address, block_id) == Await(EthProvider("balance", address, unwrap_or(block_id, Latest)))
balance(address, block_id) == Await(EthProvider("balance", address, block_id))
storage_at(args, block_id) == Await(EthProvider("storage_at", args, block_id))
transaction_count(address, block_id) == Await(EthProvider("transaction_count", address, block_id))
get_code(address, block_id) == Await(EthProvider("get_code", address, block_id))
get_logs(filter) == Await(EthProvider("get_logs", filter, NotApplicable))
call(request, block_id) == Await(KakarotClient("call", request, unwrap_or(block_id, Latest)))
create_access_list == Return(Err(IntoRpcError(MethodNotSupported("eth_createAccessList"))))
\* Variant: the block identifier is handed on without the default.
estimate_gas_undefaulted(request, block_id) == Await(KakarotClient("estimate_gas", request, block_id))
estimate_gas(request, block_id) == Await(KakarotClient("estimate_gas", request, unwrap_or(block_id, Latest)))
gas_price == Get(KakarotClient("base_fee_per_gas", NoParam, NotApplicable))
fee_history(args) == Await(KakarotClient("fee_history", args, NotApplicable))
max_priority_fee_per_gas == Get(KakarotClient("max_priority_fee_per_gas", NoParam, NotApplicable))
mining == Return(Err(IntoRpcError(MethodNotSupported("eth_mining"))))
hashrate == Return(Err(IntoRpcError(MethodNotSupported("eth_hashrate"))))
get_work == Return(Err(IntoRpcError(MethodNotSupported("eth_getWork"))))
submit_hashrate == Return(Err(IntoRpcError(MethodNotSupported("eth_submitHashrate"))))
submit_work == Return(Err(IntoRpcError(MethodNotSupported("eth_submitWork"))))
send_transaction == Return(Err(IntoRpcError(MethodNotSupported("eth_sendTransaction"))))
send_raw_transaction(bytes) == Await(KakarotClient("send_transaction", bytes, NotApplicable))
sign == Return(Err(IntoRpcError(MethodNotSupported("eth_sign"))))
sign_transaction == Return(Err(IntoRpcError(MethodNotSupported("eth_signTransaction"))))
sign_typed_data == Return(Err(IntoRpcError(MethodNotSupported("eth_signTypedData"))))
get_proof == Return(Err(IntoRpcError(MethodNotSupported("eth_getProof"))))
new_filter == Return(Err(IntoRpcError(MethodNotSupported("eth_newFilter"))))
new_block_filter == Return(Err(IntoRpcError(MethodNotSupported("eth_newBlockFilter"))))
new_pending_transaction_filter == Return(Err(IntoRpcError(MethodNotSupported("eth_newPendingTransactionFilter"))))
uninstall_filter == Return(Err(IntoRpcError(MethodNotSupported("eth_uninstallFilter"))))
get_filter_changes == Return(Err(IntoRpcError(MethodNotSupported("eth_getFilterChanges"))))
\* Variant: the payload of the neighbouring stub, copied.
get_filter_logs_copied == Return(Err(IntoRpcError(MethodNotSupported("eth_getFilterChanges"))))
get_filter_logs == Return(Err(IntoRpcError(MethodNotSupported("eth_getFilterLogs"))))

\* The handlers by the shape of their parameter list.
NoArgMethods == {"block_number", "syncing", "coinbase", "accounts", "chain_id", "gas_price",
                 "max_priority_fee_per_gas", "mining", "hashrate", "get_work",
                 "new_block_filter", "new_pending_transaction_filter"}
BlockIdMethods == {"balance", "storage_at", "transaction_count", "get_code", "call",
                   "create_access_list", "estimate_gas", "get_proof"}
ArgMethods == {"block_by_hash", "block_by_number", "block_transaction_count_by_hash",
               "block_transaction_count_by_number", "block_uncles_count_by_block_hash",
               "block_uncles_count_by_block_number", "uncle_by_block_hash_and_index",
               "uncle_by_block_number_and_index", "transaction_by_hash",
               "transaction_by_block_hash_and_index", "transaction_by_block_number_and_index",
               "transaction_receipt", "get_logs", "fee_history", "submit_hashrate",
               "submit_work", "send_transaction", "send_raw_transaction", "sign",
               "sign_transaction", "sign_typed_data", "new_filter", "uninstall_filter",
               "get_filter_changes", "get_filter_logs"}
Methods == NoArgMethods \cup BlockIdMethods \cup ArgMethods
ParamsOf(m) == IF m \in NoArgMethods THEN {NoParam} ELSE Payloads
BlocksOf(m) == IF m \in BlockIdMethods THEN OptBlockIds ELSE {NotApplicable}

\* The RPC module's routing of a method to its handler.
Handler(m, payload, block_id) ==
  CASE m = "block_number" -> block_number
    [] m = "syncing" -> syncing
    [] m = "coinbase" -> coinbase
    [] m = "accounts" -> accounts
    [] m = "chain_id" -> chain_id
    [] m = "block_by_hash" -> block_by_hash(payload)
    [] m = "block_by_number" -> block_by_number(payload)
    [] m = "block_transaction_count_by_hash" -> block_transaction_count_by_hash(payload)
    [] m = "block_transaction_count_by_number" -> block_transaction_count_by_number(payload)
    [] m = "block_uncles_count_by_block_hash" -> block_uncles_count_by_block_hash
    [] m = "block_uncles_count_by_block_number" -> block_uncles_count_by_block_number
    [] m = "uncle_by_block_hash_and_index" -> uncle_by_block_hash_and_index
    [] m = "uncle_by_block_number_and_index" -> uncle_by_block_number_and_index
    [] m = "transaction_by_hash" -> transaction_by_hash(payload)
    [] m = "transaction_by_block_hash_and_index" -> transaction_by_block_hash_and_index(payload)
    [] m = "transaction_by_block_number_and_index" -> transaction_by_block_number_and_index(payload)
    [] m = "transaction_receipt" -> transaction_receipt(payload)
    [] m = "balance" -> balance(payload, block_id)
    [] m = "storage_at" -> storage_at(payload, block_id)
    [] m = "transaction_count" -> transaction_count(payload, block_id)
    [] m = "get_code" -> get_code(payload, block_id)
    [] m = "get_logs" -> get_logs(payload)
    [] m = "call" -> call(payload, block_id)
    [] m = "create_access_list" -> create_access_list
    [] m = "estimate_gas" -> estimate_gas(payload, block_id)
    [] m = "gas_price" -> gas_price
    [] m = "fee_history" -> fee_history(payload)
    [] m = "max_priority_fee_per_gas" -> max_priority_fee_per_gas
    [] m = "mining" -> mining
    [] m = "hashrate" -> hashrate
    [] m = "get_work" -> get_work
    [] m = "submit_hashrate" -> submit_hashrate
    [] m = "submit_work" -> submit_work
    [] m = "send_transaction" -> send_transaction
    [] m = "send_raw_transaction" -> send_raw_transaction(payload)
    [] m = "sign" -> sign
    [] m = "sign_transaction" -> sign_transaction
    [] m = "sign_typed_data" -> sign_typed_data
    [] m = "get_proof" -> get_proof
    [] m = "new_filter" -> new_filter
    [] m = "new_block_filter" -> new_block_filter
    [] m = "new_pending_transaction_filter" -> new_pending_transaction_filter
    [] m = "uninstall_filter" -> uninstall_filter
    [] m = "get_filter_changes" -> get_filter_changes
    [] m = "get_filter_logs" -> get_filter_logs

\* `Ok(<delegated call>.await?)`: the handler's continuation after the await.
Propagate(answer) == IF answer.ok THEN Ok(answer.val) ELSE Err(IntoRpcError(answer.err))

----------------------------------------------------------------------------
\* Call records.  The arguments are moved into the delegated call: once the
\* capability has answered, the handler holds the answer alone.

Entered(m, payload, block_id, step) ==
  [method |-> m, pc |-> "awaiting", payload |-> payload, block_id |-> block_id,
   request |-> step.request, requests |-> 1, depth |-> 0,
   answer |-> NoAnswer, result |-> NoResult]
Returned(m, step) ==
  [method |-> m, pc |-> "done", payload |-> Moved, block_id |-> NotApplicable,
   request |-> NoRequest, requests |-> 0, depth |-> 0,
   answer |-> NoAnswer, result |-> step.result]
Got(m, step, v) ==
  [method |-> m, pc |-> "done", payload |-> Moved, block_id |-> NotApplicable,
   request |-> step.request, requests |-> 1, depth |-> 0,
   answer |-> Ok(v), result |-> Ok(v)]
Recursing(m, d) ==
  [method |-> m, pc |-> "running", payload |-> Moved, block_id |-> NotApplicable,
   request |-> NoRequest, requests |-> 0, depth |-> d,
   answer |-> NoAnswer, result |-> NoResult]
Resumed(c, a) ==
  [c EXCEPT !.pc = "done", !.payload = Moved, !.block_id = NotApplicable,
            !.request = NoRequest, !.answer = a, !.result = Propagate(a)]

Calls == BagToSet(calls)
Spawn(c) == calls (+) SetToBag({c})
Replace(c, d) == (calls (-) SetToBag({c})) (+) SetToBag({d})
Drop(c) == calls (-) SetToBag({c})

----------------------------------------------------------------------------
\* The mempool adapter, `impl PoolProvider for PoolDataProvider`.

Senders == {"A", "B"}
Addresses == Senders \cup {"C"}
Nonces == {0, 1, MaxNonce}
GasPrices == {<<>>, <<7>>}       \* Option<U128>: None, Some(7)
\* A record of the raw listing, the answer of eth_provider.txpool_transactions().
Transactions ==
  [from : Senders, nonce : Nonces, to : {<<"C">>}, value : {1, 2}, gas : {21000},
   gas_price : GasPrices]

RECURSIVE SeqsUpTo(_, _)
SeqsUpTo(S, n) ==
  IF n = 0 THEN {<<>>}
  ELSE LET shorter == SeqsUpTo(S, n - 1)
       IN shorter \cup {Append(q, x) : q \in {r \in shorter : Len(r) = n - 1}, x \in S}
Listings == SeqsUpTo(Transactions, MaxListing)

\* u64::to_string: the decimal rendering, as the sequence of its digits.
Digit(d) == <<"0", "1", "2", "3", "4", "5", "6", "7", "8", "9">>[d + 1]
RECURSIVE to_string(_)
to_string(n) == IF n < 10 THEN <<Digit(n)>> ELSE Append(to_string(n \div 10), Digit(n % 10))

\* Option::unwrap_or_default on Option<U128>
unwrap_or_default(opt) == IF opt = <<>> THEN 0 ELSE opt[1]

EmptyMap == [k \in {} |-> k]
\* BTreeMap::insert: the value under an existing key is replaced.
insert(map, key, value) == [k \in DOMAIN map \cup {key} |-> IF k = key THEN value ELSE map[k]]
\* BTreeMap::entry(key).or_default()
or_default(map, key) == IF key \in DOMAIN map THEN map[key] ELSE EmptyMap

TxpoolInspectSummary(transaction) ==
  [to |-> transaction.to, value |-> transaction.value, gas |-> transaction.gas,
   gas_price |-> unwrap_or_default(transaction.gas_price)]
TxpoolInspectDefault == [pending |-> EmptyMap, queued |-> EmptyMap]

\* Variant: an entry already present under (sender, nonce) is kept.
InspectStepKeepFirst(inspect, transaction) ==
  IF /\ transaction.from \in DOMAIN inspect.pending
     /\ to_string(transaction.nonce) \in DOMAIN inspect.pending[transaction.from]
  THEN inspect
  ELSE [inspect EXCEPT !.pending =
          insert(inspect.pending, transaction.from,
                 insert(or_default(inspect.pending, transaction.from),
                        to_string(transaction.nonce), TxpoolInspectSummary(transaction)))]

\* Variant: a sender's further transactions are filed as queued.
InspectStepQueueing(inspect, transaction) ==
  IF transaction.from \in DOMAIN inspect.pending
  THEN [inspect EXCEPT !.queued =
          insert(inspect.queued, transaction.from,
                 insert(or_default(inspect.queued, transaction.from),
                        to_string(transaction.nonce), TxpoolInspectSummary(transaction)))]
  ELSE [inspect EXCEPT !.pending =
          insert(inspect.pending, transaction.from,
                 insert(or_default(inspect.pending, transaction.from),
                        to_string(transaction.nonce), TxpoolInspectSummary(transaction)))]

\* The body of the `for transaction in transactions` loop of txpool_inspect.
InspectStep(inspect, transaction) ==
  [inspect EXCEPT !.pending =
     insert(inspect.pending, transaction.from,
            insert(or_default(inspect.pending, transaction.from),
                   to_string(transaction.nonce), TxpoolInspectSummary(transaction)))]

RECURSIVE InspectLoop(_, _, _)
InspectLoop(inspect, transactions, i) ==
  IF i > Len(transactions) THEN inspect
  ELSE InspectLoop(InspectStep(inspect, transactions[i]), transactions, i + 1)
Inspect(transactions) == InspectLoop(TxpoolInspectDefault, transactions, 1)

\* The answer of eth_provider.txpool_content(): two partitions, each keyed by
\* sender, then by the nonce as a string, holding whole transactions.
ContentEntries == [from : Senders, key : {to_string(n) : n \in Nonces}, tx : {"T1", "T2"}]
KeysDistinct(S) == \A e, f \in S : (e.from = f.from /\ e.key = f.key) => e = f
RECURSIVE SetsUpTo(_, _)
SetsUpTo(S, n) ==
  IF n = 0 THEN {{}}
  ELSE LET smaller == SetsUpTo(S, n - 1)
       IN smaller \cup {T \cup {x} : T \in {U \in smaller : Cardinality(U) = n - 1}, x \in S}
PartitionOf(S) ==
  [a \in {e.from : e \in S} |->
     [k \in {e.key : e \in {f \in S : f.from = a}} |->
        (CHOOSE e \in S : e.from = a /\ e.key = k).tx]]
Partitions == {PartitionOf(S) : S \in {T \in SetsUpTo(ContentEntries, MaxEntries) : KeysDistinct(T)}}
Contents == [pending : Partitions, queued : Partitions]

\* txpool_status: `len()` of a partition, a map keyed by sender.
Status(all) == [pending |-> Cardinality(DOMAIN all.pending), queued |-> Cardinality(DOMAIN all.queued)]
\* Variant: the queued partition is read from the pending one.
remove_from_pending_twice(content, from) ==
  [pending |-> or_default(content.pending, from), queued |-> or_default(content.pending, from)]
\* TxpoolContent::remove_from
remove_from(content, from) ==
  [pending |-> or_default(content.pending, from), queued |-> or_default(content.queued, from)]
ContentFrom(content, from) == remove_from(content, from)
Content(content) == content

PoolIdle ==
  [pc |-> "idle", op |-> "-", from |-> "-", request |-> "-", requests |-> 0,
   ok |-> FALSE, err |-> NoErr, answer |-> <<>>, out |-> <<>>]
PoolAwait(op, from, request) ==
  [PoolIdle EXCEPT !.pc = "awaiting", !.op = op, !.from = from, !.request = request,
                   !.requests = 1]
\* What each adapter method makes of the capability's answer.
PoolResult(op, from, answer) ==
  CASE op = "txpool_status" -> Status(answer)
    [] op = "txpool_inspect" -> Inspect(answer)
    [] op = "txpool_content_from" -> ContentFrom(answer, from)
    [] op = "txpool_content" -> Content(answer)
AnswersTo(request) == IF request = "txpool_transactions" THEN Listings ELSE Contents

----------------------------------------------------------------------------
\* The state machine of the dispatcher.

Init ==
  /\ calls = EmptyBag
  /\ aborted = FALSE
  /\ pool = PoolIdle

CanSpawn == ~aborted /\ BagCardinality(calls) < NumTasks

\* A handler that answers without a capability: a stub or a constant.
InvokeReturn(m) ==
  /\ CanSpawn
  /\ \E payload \in ParamsOf(m), block_id \in BlocksOf(m) :
       LET step == Handler(m, payload, block_id)
       IN /\ step.kind = "return"
          /\ calls' = Spawn(Returned(m, step))
  /\ UNCHANGED <<aborted, pool>>

\* A handler that delegates and suspends on the capability's future.
InvokeAwait(m) ==
  /\ CanSpawn
  /\ \E payload \in ParamsOf(m), block_id \in BlocksOf(m) :
       LET step == Handler(m, payload, block_id)
       IN /\ step.kind = "await"
          /\ calls' = Spawn(Entered(m, payload, block_id, step))
  /\ UNCHANGED <<aborted, pool>>

\* A handler that reads a value the execution capability holds, synchronously.
InvokeGet(m) ==
  /\ CanSpawn
  /\ \E payload \in ParamsOf(m), block_id \in BlocksOf(m), v \in Values :
       LET step == Handler(m, payload, block_id)
       IN /\ step.kind = "get"
          /\ calls' = Spawn(Got(m, step, v))
  /\ UNCHANGED <<aborted, pool>>

\* A handler whose body calls the handler again.
InvokeRecurse(m) ==
  /\ CanSpawn
  /\ \E payload \in ParamsOf(m), block_id \in BlocksOf(m) :
       LET step == Handler(m, payload, block_id)
       IN /\ step.kind = "recurse"
          /\ calls' = Spawn(Recursing(m, 1))
  /\ UNCHANGED <<aborted, pool>>

\* The nested frame runs the same body: one more frame, no request issued.
Reenter ==
  /\ ~aborted
  /\ \E c \in Calls :
       /\ c.pc = "running"
       /\ c.depth < MaxDepth
       /\ calls' = Replace(c, Recursing(c.method, c.depth + 1))
  /\ UNCHANGED <<aborted, pool>>

\* The stack is exhausted: the process is killed, every call with it.
StackOverflow ==
  /\ ~aborted
  /\ \E c \in Calls : c.pc = "running" /\ c.depth = MaxDepth
  /\ aborted' = TRUE
  /\ UNCHANGED <<calls, pool>>

\* The capability answers a pending request; the handler resumes and returns.
Answer ==
  /\ ~aborted
  /\ \E c \in Calls, a \in Answers :
       /\ c.pc = "awaiting"
       /\ calls' = Replace(c, Resumed(c, a))
  /\ UNCHANGED <<aborted, pool>>

\* The response is serialized and the call's objects are discarded.
Respond ==
  /\ ~aborted
  /\ \E c \in Calls :
       /\ c.pc = "done"
       /\ calls' = Drop(c)
  /\ UNCHANGED <<aborted, pool>>

Next ==
  \/ \E m \in Methods : InvokeReturn(m)
  \/ \E m \in Methods : InvokeAwait(m)
  \/ \E m \in Methods : InvokeGet(m)
  \/ \E m \in Methods : InvokeRecurse(m)
  \/ Reenter
  \/ StackOverflow
  \/ Answer
  \/ Respond

Spec == Init /\ [][Next]_vars

----------------------------------------------------------------------------
\* The state machine of the mempool adapter.

TxpoolStatus ==
  /\ pool.pc = "idle"
  /\ pool' = PoolAwait("txpool_status", "-", "txpool_content")
  /\ UNCHANGED <<calls, aborted>>

TxpoolInspect ==
  /\ pool.pc = "idle"
  /\ pool' = PoolAwait("txpool_inspect", "-", "txpool_transactions")
  /\ UNCHANGED <<calls, aborted>>

TxpoolContentFrom ==
  /\ pool.pc = "idle"
  /\ \E from \in Addresses : pool' = PoolAwait("txpool_content_from", from, "txpool_content")
  /\ UNCHANGED <<calls, aborted>>

TxpoolContent ==
  /\ pool.pc = "idle"
  /\ pool' = PoolAwait("txpool_content", "-", "txpool_content")
  /\ UNCHANGED <<calls, aborted>>

\* The read capability answers; the adapter derives its result.
PoolAnswerOk ==
  /\ pool.pc = "awaiting"
  /\ \E answer \in AnswersTo(pool.request) :
       pool' = [pool EXCEPT !.pc = "done", !.ok = TRUE, !.answer = answer,
                            !.out = PoolResult(pool.op, pool.from, answer)]
  /\ UNCHANGED <<calls, aborted>>

\* The read capability fails; `?` returns the failure as it is.
PoolAnswerErr ==
  /\ pool.pc = "awaiting"
  /\ \E k \in CapErrorKinds :
       pool' = [pool EXCEPT !.pc = "done", !.ok = FALSE, !.err = CapError(k)]
  /\ UNCHANGED <<calls, aborted>>

PoolRespond ==
  /\ pool.pc = "done"
  /\ pool' = PoolIdle
  /\ UNCHANGED <<calls, aborted>>

PoolNext ==
  \/ TxpoolStatus
  \/ TxpoolInspect
  \/ TxpoolContentFrom
  \/ TxpoolContent
  \/ PoolAnswerOk
  \/ PoolAnswerErr
  \/ PoolRespond

PoolSpec == Init /\ [][PoolNext]_vars

----------------------------------------------------------------------------
\* The method policies of the specification, by handler.

UnsupportedMethods ==
  {"coinbase", "mining", "hashrate", "get_work", "submit_hashrate", "submit_work",
   "send_transaction", "sign", "sign_transaction", "sign_typed_data", "get_proof",
   "new_filter", "new_block_filter", "new_pending_transaction_filter",
   "uninstall_filter", "get_filter_changes", "get_filter_logs", "create_access_list"}
CanonicalName ==
  [m \in UnsupportedMethods |->
     CASE m = "coinbase" -> "eth_coinbase"
       [] m = "mining" -> "eth_mining"
       [] m = "hashrate" -> "eth_hashrate"
       [] m = "get_work" -> "eth_getWork"
       [] m = "submit_hashrate" -> "eth_submitHashrate"
       [] m = "submit_work" -> "eth_submitWork"
       [] m = "send_transaction" -> "eth_sendTransaction"
       [] m = "sign" -> "eth_sign"
       [] m = "sign_transaction" -> "eth_signTransaction"
       [] m = "sign_typed_data" -> "eth_signTypedData"
       [] m = "get_proof" -> "eth_getProof"
       [] m = "new_filter" -> "eth_newFilter"
       [] m = "new_block_filter" -> "eth_newBlockFilter"
       [] m = "new_pending_transaction_filter" -> "eth_newPendingTransactionFilter"
       [] m = "uninstall_filter" -> "eth_uninstallFilter"
       [] m = "get_filter_changes" -> "eth_getFilterChanges"
       [] m = "get_filter_logs" -> "eth_getFilterLogs"
       [] m = "create_access_list" -> "eth_createAccessList"]
BlockReadMethods == {"balance", "storage_at", "transaction_count", "get_code"}
PassThroughReadMethods ==
  {"block_number", "syncing", "chain_id", "block_by_hash", "block_by_number",
   "block_transaction_count_by_hash", "block_transaction_count_by_number",
   "transaction_by_hash", "transaction_by_block_hash_and_index",
   "transaction_by_block_number_and_index", "transaction_receipt", "get_logs"}
  \cup BlockReadMethods
ExecutionRoutedMethods ==
  {"call", "estimate_gas", "gas_price", "fee_history", "max_priority_fee_per_gas",
   "send_raw_transaction"}
UncleCountMethods == {"block_uncles_count_by_block_hash", "block_uncles_count_by_block_number"}
UncleMethods == {"uncle_by_block_hash_and_index", "uncle_by_block_number_and_index"}

\* A capability failure has reached some caller: the capabilities are failing.
SomeCapabilityFailed == \E d \in Calls : d.pc = "done" /\ d.requests = 1 /\ ~d.answer.ok

----------------------------------------------------------------------------
\* C1: every call of an unsupported method is complete as soon as it is made,
\* with a failure of kind "method not supported" whose payload is the method's
\* canonical name, and it has issued no request to a capability.
C1_UnsupportedAlwaysFail ==
  \A c \in Calls :
    c.method \in UnsupportedMethods =>
      /\ c.pc = "done"
      /\ ~c.result.ok
      /\ c.result.err.kind = "MethodNotSupported"
      /\ c.result.err.payload = CanonicalName[c.method]
      /\ c.requests = 0
      /\ c.request = NoRequest

C1_Witness ==
  /\ SomeCapabilityFailed
  /\ \E c \in Calls :
       /\ c.method = "create_access_list"
       /\ c.pc = "done"
       /\ c.result.err.payload = "eth_createAccessList"

\* C2 as claimed: for eth_getBalance, eth_getStorageAt, eth_getTransactionCount
\* and eth_getCode the read capability never receives an absent block
\* identifier: absent arrives as Latest, an explicit identifier unchanged.
C2_ReadNeverSeesAbsent ==
  \A c \in Calls :
    (c.method \in BlockReadMethods /\ c.pc = "awaiting") =>
      /\ c.request.block # None
      /\ c.request.block = (IF c.block_id = None THEN Latest ELSE c.block_id)

\* C2 as amended: for these four methods the dispatcher hands the caller's
\* optional block identifier to the read capability as it is: absent arrives as
\* absent (no Latest is injected), an explicit identifier unchanged.
C2_ReadForwardsBlockIdAsGiven ==
  \A c \in Calls :
    c.method \in BlockReadMethods =>
      /\ c.pc \in {"awaiting", "done"}
      /\ c.pc = "awaiting" =>
           /\ c.request.cap = "eth_provider"
           /\ c.request.op = c.method
           /\ c.request.block = c.block_id

C2_Witness ==
  \E c, d \in Calls :
    /\ c.method = "balance" /\ c.pc = "awaiting"
    /\ c.block_id = None /\ c.request.block = None
    /\ d.method = "get_code" /\ d.pc = "awaiting"
    /\ d.block_id = <<"Hash", "0xh1">> /\ d.request.block = d.block_id

\* C3: eth_call and eth_estimateGas hand the execution capability Latest when
\* the caller gives no block identifier, the caller's identifier when one is
\* given, and the call request unchanged in both cases.
C3_ExecutionBlockDefault ==
  \A c \in Calls :
    c.method \in {"call", "estimate_gas"} =>
      /\ c.pc \in {"awaiting", "done"}
      /\ c.pc = "awaiting" =>
           /\ c.request.cap = "kakarot_client"
           /\ c.request.op = c.method
           /\ c.request.payload = c.payload
           /\ c.block_id = None => c.request.block = Latest
           /\ c.block_id # None => c.request.block = c.block_id

C3_Witness ==
  \E c, d \in Calls :
    /\ c.method = "call" /\ c.pc = "awaiting"
    /\ c.block_id = None /\ c.request.block = Latest /\ c.request.payload = c.payload
    /\ d.method = "estimate_gas" /\ d.pc = "awaiting"
    /\ d.block_id = <<"Number", "0x1">> /\ d.request.block = d.block_id

\* C4: every call of a pass-through read or execution-routed method is
\* delegated to a capability, and completes with the capability's success
\* value unchanged or with a failure that carries the capability's failure.
C4_PassThroughResult ==
  \A c \in Calls :
    c.method \in PassThroughReadMethods \cup ExecutionRoutedMethods =>
      \/ c.pc = "awaiting" /\ c.request.cap \in {"eth_provider", "kakarot_client"}
      \/ /\ c.pc = "done"
         /\ c.answer # NoAnswer
         /\ c.answer.ok => c.result = Ok(c.answer.val)
         /\ ~c.answer.ok => (~c.result.ok /\ c.result.err.kind = c.answer.err.kind)

\* C5: the uncle counts are zero, the uncle lookups are absent and the account
\* list is empty, always a success and with no request to a capability.
C5_ConstantsAlwaysSucceed ==
  \A c \in Calls :
    /\ c.method \in UncleCountMethods =>
         (c.pc = "done" /\ c.result = Ok("0x0") /\ c.requests = 0)
    /\ c.method \in UncleMethods =>
         (c.pc = "done" /\ c.result = Ok("null") /\ c.requests = 0)
    /\ c.method = "accounts" =>
         (c.pc = "done" /\ c.result = Ok("[]") /\ c.requests = 0)

C5_Witness ==
  /\ SomeCapabilityFailed
  /\ \E c \in Calls :
       /\ c.method = "block_uncles_count_by_block_number"
       /\ c.pc = "done"
       /\ c.result.ok

\* C9: every call of a delegating method has issued exactly one request to a
\* capability and has not entered the dispatcher again; so has the adapter.
C9_OneRequestNoReentry ==
  /\ \A c \in Calls :
       c.method \in (PassThroughReadMethods \cup ExecutionRoutedMethods) =>
         (c.requests = 1 /\ c.depth = 0)
  /\ pool.pc # "idle" => pool.requests = 1

----------------------------------------------------------------------------
\* Reading the adapter's results.

\* The number a decimal string denotes, and whether it is written canonically.
DigitValue(ch) == CHOOSE d \in 0..9 : Digit(d) = ch
RECURSIVE DecimalValue(_)
DecimalValue(str) ==
  IF Len(str) = 0 THEN 0
  ELSE 10 * DecimalValue(SubSeq(str, 1, Len(str) - 1)) + DigitValue(str[Len(str)])
IsDecimal(str) == Len(str) >= 1 /\ (Len(str) > 1 => str[1] # "0")

\* The (sender, key) pairs of a two-level mapping.
KeysOf(map) == UNION {{<<a, k>> : k \in DOMAIN map[a]} : a \in DOMAIN map}
RECURSIVE SumOver(_, _)
SumOver(map, S) ==
  IF S = {} THEN 0
  ELSE LET a == CHOOSE x \in S : TRUE
       IN Cardinality(DOMAIN map[a]) + SumOver(map, S \ {a})
\* The number of transactions a partition holds, over all senders and nonces.
TotalTransactions(partition) == SumOver(partition, DOMAIN partition)

InspectDone == pool.pc = "done" /\ pool.op = "txpool_inspect" /\ pool.ok
StatusDone == pool.pc = "done" /\ pool.op = "txpool_status" /\ pool.ok
ContentFromDone == pool.pc = "done" /\ pool.op = "txpool_content_from" /\ pool.ok
ContentDone == pool.pc = "done" /\ pool.op = "txpool_content" /\ pool.ok

\* C6: inspect() is keyed by sender, then by the nonce in decimal; its keys are
\* exactly the (sender, nonce) pairs of the listing, and under each key stands
\* {recipient, value, gas limit, gas price or 0} of the last record of the
\* listing with that sender and nonce.
C6_InspectLastWriteWins ==
  InspectDone =>
    LET listing == pool.answer
        pending == pool.out.pending
    IN /\ \A key \in KeysOf(pending) : IsDecimal(key[2])
       /\ {<<key[1], DecimalValue(key[2])>> : key \in KeysOf(pending)}
            = {<<listing[i].from, listing[i].nonce>> : i \in 1..Len(listing)}
       /\ Cardinality(KeysOf(pending))
            = Cardinality({<<listing[i].from, listing[i].nonce>> : i \in 1..Len(listing)})
       /\ \A i \in 1..Len(listing) :
            (\A j \in (i + 1)..Len(listing) :
               ~(listing[j].from = listing[i].from /\ listing[j].nonce = listing[i].nonce))
            => \A key \in KeysOf(pending) :
                 (key[1] = listing[i].from /\ DecimalValue(key[2]) = listing[i].nonce) =>
                   pending[key[1]][key[2]] =
                     [to |-> listing[i].to, value |-> listing[i].value, gas |-> listing[i].gas,
                      gas_price |-> IF listing[i].gas_price = <<>> THEN 0
                                    ELSE listing[i].gas_price[1]]

C6_Witness ==
  /\ InspectDone
  /\ Len(pool.answer) = 2
  /\ pool.answer[1].from = "A" /\ pool.answer[2].from = "A"
  /\ pool.answer[1].nonce = 0 /\ pool.answer[2].nonce = 0
  /\ pool.answer[1].value = 1 /\ pool.answer[2].value = 2
  /\ pool.answer[2].gas_price = <<>>
  /\ KeysOf(pool.out.pending) = {<<"A", <<"0">>>>}
  /\ pool.out.pending["A"][<<"0">>].value = 2
  /\ pool.out.pending["A"][<<"0">>].gas_price = 0

\* C7: status() counts the transactions of each partition of the content,
\* over all senders and nonces.
C7_StatusCountsTransactions ==
  StatusDone =>
    /\ pool.out.pending = TotalTransactions(pool.answer.pending)
    /\ pool.out.queued = TotalTransactions(pool.answer.queued)

\* C8: content_from(S) is exactly what the content holds under S, pending and
\* queued, entry by entry, and nothing of another sender; content() is the
\* content itself.
C8_ContentFromSender ==
  /\ ContentFromDone =>
       \A part \in {"pending", "queued"} :
         LET whole == pool.answer[part]
             mine == pool.out[part]
         IN /\ DOMAIN pool.out = {"pending", "queued"}
            /\ \A k \in DOMAIN mine :
                 pool.from \in DOMAIN whole /\ k \in DOMAIN whole[pool.from]
                                            /\ mine[k] = whole[pool.from][k]
            /\ pool.from \in DOMAIN whole => DOMAIN whole[pool.from] \subseteq DOMAIN mine
  /\ ContentDone => pool.out = pool.answer

C8_Witness ==
  /\ ContentFromDone
  /\ pool.from = "A"
  /\ DOMAIN pool.answer.pending = {"A", "B"}
  /\ DOMAIN pool.answer.queued = {"B"}
  /\ pool.out.pending = pool.answer.pending["A"]
  /\ DOMAIN pool.out.queued = {}

\* C10: inspect() reports every transaction of the listing as pending, and
\* nothing as queued.
C10_InspectAllPending ==
  InspectDone =>
    /\ DOMAIN pool.out.queued = {}
    /\ \A i \in 1..Len(pool.answer) :
         /\ pool.answer[i].from \in DOMAIN pool.out.pending
         /\ \E k \in DOMAIN pool.out.pending[pool.answer[i].from] :
              DecimalValue(k) = pool.answer[i].nonce

C10_Witness ==
  /\ InspectDone
  /\ Len(pool.answer) = 2
  /\ pool.answer[1].from = "A" /\ pool.answer[2].from = "A"
  /\ pool.answer[1].nonce # pool.answer[2].nonce
  /\ Cardinality(KeysOf(pool.out.pending)) = 2
  /\ Cardinality(DOMAIN pool.out.pending) = 1
  /\ DOMAIN pool.out.queued = {}

====
